---------------------------- MODULE Spec2Model ----------------------------
(***************************************************************************)
(* Model of client/src/app/game/game.models.ts: the GameStatus enumeration *)
(* and the Game class (its constructor and isPlayable), together with the  *)
(* callers that own the payloads, build Games from them, call isPlayable   *)
(* and keep changing their own payloads afterwards.                        *)
(*                                                                         *)
(* JavaScript values are tagged records.  Primitives carry their value,    *)
(* an object value carries the address of a heap cell, so that two values  *)
(* are === exactly when the records are equal.                             *)
(***************************************************************************)
EXTENDS Integers, Sequences, FiniteSets, TLC

VARIABLES
    heap,       \* address -> contents of the array/object living there
    payloads,   \* caller's payload objects: payload id -> (field -> value)
    games,      \* outcome of each `new Game(info)` so far, in order
    given,      \* per outcome: the payload id and the payload as it was passed
    returned,   \* per Game: the set of results its isPlayable() calls gave
    changes     \* number of changes callers made to payloads / heap cells

vars == <<heap, payloads, games, given, returned, changes>>

\* ---------------------------------------------------------------- bounds
MaxGames == 2
MaxChanges == 1

\* ------------------------------------------------------ JavaScript values
Undefined == [t |-> "undefined"]
Null == [t |-> "null"]
Num(n) == [t |-> "number", n |-> n]
Str(s) == [t |-> "string", s |-> s]
Ref(a) == [t |-> "object", a |-> a]
Rec(props) == [t |-> "record", props |-> props]

\* info.f : reading a property that the object does not have gives undefined
Get(props, f) == IF f \in DOMAIN props THEN props[f] ELSE Undefined

\* ------------------------------------------------------------- GameStatus
GameStatus ==
    [NEW |-> "new", ONGOING |-> "ongoing", FINISHED |-> "finished",
     ABANDONED |-> "abandoned"]


\* ------------------------------------------------------------------ Date
\* A time value is a day number since 1970-01-01 plus the milliseconds within
\* that day (the two are kept apart: day * 86400000 + ms), or NaN.
NaN == [nan |-> TRUE, day |-> 0, ms |-> 0]
TimeValue(day, ms) == [nan |-> FALSE, day |-> day, ms |-> ms]

\* The date strings callers are given, split into the fields of the ISO form
\* YYYY-MM-DDTHH:mm:ssZ; a string of any other shape has no fields.
IsoFields(s) ==
    CASE s = "2024-01-01T00:00:00Z" -> <<2024, 1, 1, 0, 0, 0>>
      [] s = "2024-02-01T00:00:00Z" -> <<2024, 2, 1, 0, 0, 0>>
      [] OTHER -> <<>>

\* Day number of a proleptic Gregorian date (ECMAScript MakeDay).
MakeDay(y, m, d) ==
    LET yy == IF m <= 2 THEN y - 1 ELSE y
        era == yy \div 400
        yoe == yy - era * 400
        mp == IF m > 2 THEN m - 3 ELSE m + 9
        doy == (153 * mp + 2) \div 5 + d - 1
        doe == yoe * 365 + yoe \div 4 - yoe \div 100 + doy
    IN  era * 146097 + doe - 719468

\* Date.parse: the time value of a well-formed date string, NaN otherwise.
\* (Days 29..31 are month-dependent and engine-dependent when out of range;
\* no date string given to callers uses them.)
DateParse(s) ==
    LET f == IsoFields(s)
    IN  IF f = <<>> \/ f[2] \notin 1..12 \/ f[3] \notin 1..28
           \/ f[4] \notin 0..23 \/ f[5] \notin 0..59 \/ f[6] \notin 0..59
        THEN NaN
        ELSE TimeValue(MakeDay(f[1], f[2], f[3]),
                       ((f[4] * 60 + f[5]) * 60 + f[6]) * 1000)

\* Date as it would be with a fallback for values that do not parse
\* (new Date(value || 0)): the epoch instead of an invalid date.
DateOrEpoch(v) ==
    [t |-> "date",
     tv |-> IF v.t = "string" /\ ~DateParse(v.s).nan
            THEN DateParse(v.s)
            ELSE TimeValue(0, 0)]

\* new Date(value): a string is parsed, anything else is converted to a
\* number of milliseconds (undefined -> NaN, null -> 0).
Date(v) ==
    [t |-> "date",
     tv |-> CASE v.t = "string" -> DateParse(v.s)
              [] v.t = "number" -> TimeValue(v.n \div 86400000, v.n % 86400000)
              [] v.t = "null" -> TimeValue(0, 0)
              [] v.t = "undefined" -> NaN]

\* ------------------------------------------------------------------ Game
\* The eight assignments of the constructor body.
GameFields(info) ==
    [id |-> Get(info.props, "id"),
     name |-> Get(info.props, "name"),
     status |-> Get(info.props, "status"),
     nPlayers |-> Get(info.props, "n_players"),
     createdOn |-> Date(Get(info.props, "created_on")),
     lastActive |-> Date(Get(info.props, "last_active")),
     rounds |-> Get(info.props, "rounds"),
     scoreboard |-> Get(info.props, "scoreboard")]

\* Game with rounds and scoreboard taken from each other's field.
GameSwapped(info) ==
    IF info.t \in {"undefined", "null"}
    THEN [threw |-> TRUE]
    ELSE [threw |-> FALSE,
          obj |-> [GameFields(info) EXCEPT
                      !.rounds = Get(info.props, "scoreboard"),
                      !.scoreboard = Get(info.props, "rounds")]]

\* Game with lastActive parsed from created_on.
GameOneDate(info) ==
    IF info.t \in {"undefined", "null"}
    THEN [threw |-> TRUE]
    ELSE [threw |-> FALSE,
          obj |-> [GameFields(info) EXCEPT
                      !.lastActive = Date(Get(info.props, "created_on"))]]

\* Game rejecting a payload that lacks one of its fields.
GameValidating(info) ==
    IF info.t \in {"undefined", "null"}
          \/ \E f \in {"id", "name", "status", "n_players", "created_on",
                       "last_active", "rounds", "scoreboard"} :
                f \notin DOMAIN info.props
    THEN [threw |-> TRUE]
    ELSE [threw |-> FALSE, obj |-> GameFields(info)]

\* Game numbering its instances itself (a static counter) instead of taking
\* the payload's id.
GameCounting(info) ==
    IF info.t \in {"undefined", "null"}
    THEN [threw |-> TRUE]
    ELSE [threw |-> FALSE,
          obj |-> [GameFields(info) EXCEPT !.id = Num(Len(games) + 1)]]

\* Game keeping copies of the payload's arrays and objects ([...info.rounds])
\* instead of the payload's own values.
GameCopying(info) ==
    LET copy(v) ==
            IF v.t = "object" THEN [t |-> "array", items |-> heap[v.a]] ELSE v
    IN  IF info.t \in {"undefined", "null"}
        THEN [threw |-> TRUE]
        ELSE [threw |-> FALSE,
              obj |-> [GameFields(info) EXCEPT
                          !.nPlayers = copy(@),
                          !.rounds = copy(@),
                          !.scoreboard = copy(@)]]

\* new Game(info): reading a property of undefined or null throws a
\* TypeError at the first assignment; otherwise the eight assignments run.
Game(info) ==
    IF info.t \in {"undefined", "null"}
    THEN [threw |-> TRUE]
    ELSE [threw |-> FALSE, obj |-> GameFields(info)]

\* isPlayable that also accepts a game in progress.
isPlayableOngoing(this) ==
    this.status \in {Str(GameStatus.NEW), Str(GameStatus.ONGOING)}

\* this.status === GameStatus.NEW
isPlayable(this) == this.status = Str(GameStatus.NEW)

\* --------------------------------------------------------------- callers
PayloadIds == {"p1", "p2"}

Fields ==
    {"id", "name", "status", "n_players", "created_on", "last_active",
     "rounds", "scoreboard"}

\* The payloads as the API client delivers them (the scenarios of the
\* specification); their arrays and objects live in heap cells 1..5.
InitHeap == <<(<< >>), (<< >>), <<1>>, <<1, 10>>, <<2>>>>

InitPayloads ==
    [p \in PayloadIds |->
        IF p = "p1"
        THEN [id |-> Num(1), name |-> Str("Quiz Night"), status |-> Str("new"),
              n_players |-> Num(4),
              created_on |-> Str("2024-01-01T00:00:00Z"),
              last_active |-> Str("2024-01-01T00:00:00Z"),
              rounds |-> Ref(1), scoreboard |-> Ref(2)]
        ELSE [id |-> Num(2), name |-> Str("Trivia"), status |-> Str("finished"),
              n_players |-> Ref(5),
              created_on |-> Str("bad-date"),
              last_active |-> Str("2024-02-01T00:00:00Z"),
              rounds |-> Ref(3), scoreboard |-> Ref(4)]]

\* The values a caller may store into a payload field.
FieldValues(f) ==
    CASE f = "id" -> {Num(1), Num(2)}
      [] f = "name" -> {Str("Quiz Night"), Str("Trivia")}
      [] f = "status" ->
            {Str("new"), Str("ongoing"), Str("finished"), Str("abandoned"),
             Str("paused")}
      [] f = "n_players" -> {Num(4), Ref(5)}
      [] f \in {"created_on", "last_active"} ->
            {Str("2024-01-01T00:00:00Z"), Str("2024-02-01T00:00:00Z"),
             Str("bad-date")}
      [] f = "rounds" -> {Ref(1), Ref(3)}
      [] f = "scoreboard" -> {Ref(2), Ref(4)}

Init ==
    /\ heap = InitHeap
    /\ payloads = InitPayloads
    /\ games = << >>
    /\ given = << >>
    /\ returned = << >>
    /\ changes = 0

\* The argument of a `new Game(...)` expression: a caller's payload object,
\* or no payload at all.
Args == {[p |-> p, info |-> Rec(payloads[p])] : p \in PayloadIds}
           \cup {[p |-> "none", info |-> v] : v \in {Undefined, Null}}

\* NewGame moving n_players to nPlayers: the field is deleted from the
\* payload once it has been read.
NewGameConsuming(arg) ==
    /\ Len(games) < MaxGames
    /\ games' = Append(games, Game(arg.info))
    /\ given' = Append(given, arg)
    /\ returned' = Append(returned, {})
    /\ payloads' =
          IF arg.p \in PayloadIds
          THEN [payloads EXCEPT
                   ![arg.p] = [k \in (DOMAIN @) \ {"n_players"} |-> @[k]]]
          ELSE payloads
    /\ UNCHANGED <<heap, changes>>

\* NewGame with the attributes kept in one place for all Games (on the class
\* instead of the instance): every Game shows the latest construction.
NewGameShared(arg) ==
    /\ Len(games) < MaxGames
    /\ games' =
          IF Game(arg.info).threw
          THEN Append(games, Game(arg.info))
          ELSE Append([h \in 1..Len(games) |->
                          IF games[h].threw THEN games[h] ELSE Game(arg.info)],
                      Game(arg.info))
    /\ given' = Append(given, arg)
    /\ returned' = Append(returned, {})
    /\ UNCHANGED <<heap, payloads, changes>>

\* g = new Game(info).  games records the outcome of each such expression:
\* the constructed object, or that the constructor threw (no object).
NewGame(arg) ==
    /\ Len(games) < MaxGames
    /\ games' = Append(games, Game(arg.info))
    /\ given' = Append(given, arg)
    /\ returned' = Append(returned, {})
    /\ UNCHANGED <<heap, payloads, changes>>

\* isPlayable written with an assignment: return this.status = GameStatus.NEW
IsPlayableAssigning(g) ==
    /\ ~games[g].threw
    /\ games' = [games EXCEPT ![g].obj.status = Str(GameStatus.NEW)]
    /\ returned' = [returned EXCEPT ![g] = @ \cup {TRUE}]
    /\ UNCHANGED <<heap, payloads, given, changes>>

\* g.isPlayable(), on a Game that was constructed
IsPlayable(g) ==
    /\ ~games[g].threw
    /\ returned' = [returned EXCEPT ![g] = @ \cup {isPlayable(games[g].obj)}]
    /\ UNCHANGED <<heap, payloads, games, given, changes>>

\* info.f = v, by the caller owning payload p
CallerAssign(p, f, v) ==
    /\ changes < MaxChanges
    /\ payloads' = [payloads EXCEPT ![p] = (f :> v) @@ @]
    /\ changes' = changes + 1
    /\ UNCHANGED <<heap, games, given, returned>>

\* delete info.f
CallerDelete(p, f) ==
    /\ changes < MaxChanges
    /\ f \in DOMAIN payloads[p]
    /\ payloads' =
          [payloads EXCEPT ![p] = [k \in (DOMAIN @) \ {f} |-> @[k]]]
    /\ changes' = changes + 1
    /\ UNCHANGED <<heap, games, given, returned>>

\* x.push(v) on the array/object a caller reaches at address a
CallerPush(a, x) ==
    /\ changes < MaxChanges
    /\ heap' = [heap EXCEPT ![a] = Append(@, x)]
    /\ changes' = changes + 1
    /\ UNCHANGED <<payloads, games, given, returned>>

Next ==
    \/ \E arg \in Args : NewGame(arg)
    \/ \E g \in 1..Len(games) : IsPlayable(g)
    \/ \E p \in PayloadIds, f \in Fields : \E v \in FieldValues(f) :
          CallerAssign(p, f, v)
    \/ \E p \in PayloadIds, f \in Fields : CallerDelete(p, f)
    \/ \E a \in 1..Len(heap) : CallerPush(a, 7)

Spec == Init /\ [][Next]_vars


\* ================================================================ claims
\* The Games that exist: `new Game(info)` returned an object.
Made == {g \in 1..Len(games) : ~games[g].threw}

\* The payload fields as they were when Game g was constructed.
Passed(g, f) == Get(given[g].info.props, f)

ValidDateStrings == {"2024-01-01T00:00:00Z", "2024-02-01T00:00:00Z"}
InvalidDate == [t |-> "date", tv |-> NaN]

\* C1: isPlayable() returns true exactly when the Game's status is 'new'; for
\* 'ongoing', 'finished', 'abandoned', a status outside the enumeration and
\* an absent status it returns false.
C1_IsPlayableIffNew ==
    \A g \in Made : \A r \in returned[g] :
        /\ games[g].obj.status = Str("new") => r = TRUE
        /\ games[g].obj.status \in
              {Str("ongoing"), Str("finished"), Str("abandoned"),
               Str("paused"), Undefined} => r = FALSE
        /\ games[g].obj.status # Str(GameStatus.NEW) => r = FALSE

C1_Witness ==
    \E g, h \in Made :
        /\ returned[g] = {TRUE}
        /\ returned[h] = {FALSE}
        /\ games[h].obj.status \in {Str("paused"), Undefined}

\* C2: id, name, status, nPlayers, rounds and scoreboard of a Game are the
\* payload's id, name, status, n_players, rounds and scoreboard, unchanged
\* and each from its own field.
C2_FieldsPassThrough ==
    \A g \in Made :
        /\ games[g].obj.id = Passed(g, "id")
        /\ games[g].obj.name = Passed(g, "name")
        /\ games[g].obj.status = Passed(g, "status")
        /\ games[g].obj.nPlayers = Passed(g, "n_players")
        /\ games[g].obj.rounds = Passed(g, "rounds")
        /\ games[g].obj.scoreboard = Passed(g, "scoreboard")

C2_Witness ==
    \E g \in Made :
        /\ \A f \in Fields : f \in DOMAIN given[g].info.props
        /\ Cardinality({Passed(g, f) : f \in
              {"id", "name", "status", "n_players", "rounds", "scoreboard"}}) = 6

\* C3: when created_on and last_active are valid date strings, createdOn is
\* the parse of created_on and lastActive the parse of last_active, each
\* from its own field (2024-01-01 is day 19723, 2024-02-01 is day 19754).
C3_DatesParsed ==
    \A g \in Made :
        LET co == Passed(g, "created_on")
            la == Passed(g, "last_active")
            Day(s) == IF s = "2024-01-01T00:00:00Z" THEN 19723 ELSE 19754
        IN  (co.t = "string" /\ la.t = "string"
             /\ co.s \in ValidDateStrings /\ la.s \in ValidDateStrings)
            => /\ games[g].obj.createdOn =
                     [t |-> "date", tv |-> [nan |-> FALSE, day |-> Day(co.s), ms |-> 0]]
               /\ games[g].obj.lastActive =
                     [t |-> "date", tv |-> [nan |-> FALSE, day |-> Day(la.s), ms |-> 0]]

C3_Witness ==
    \E g \in Made :
        /\ Passed(g, "created_on") = Str("2024-01-01T00:00:00Z")
        /\ Passed(g, "last_active") = Str("2024-02-01T00:00:00Z")

\* C4: a payload object lacking any of id, name, status, n_players, rounds,
\* scoreboard is constructed without error; the attribute of a missing field
\* is undefined and every other attribute is the payload's value.
C4_MissingFieldsNoError ==
    \A g \in 1..Len(games) :
        given[g].info.t = "record" =>
            LET has(f) == f \in DOMAIN given[g].info.props
                set(attr, f) ==
                    games[g].obj[attr] =
                        IF has(f) THEN given[g].info.props[f] ELSE Undefined
            IN  /\ ~games[g].threw
                /\ set("id", "id") /\ set("name", "name")
                /\ set("status", "status") /\ set("nPlayers", "n_players")
                /\ set("rounds", "rounds") /\ set("scoreboard", "scoreboard")

C4_Witness ==
    \E g \in Made :
        /\ "n_players" \notin DOMAIN given[g].info.props
        /\ games[g].obj.nPlayers = Undefined
        /\ games[g].obj.id # Undefined

\* C5: an absent or unparsable created_on (last_active) gives an invalid
\* createdOn (lastActive) without error, and leaves the other timestamp as
\* its own field decides.
C5_BadDatesInvalid ==
    \A g \in 1..Len(games) :
        given[g].info.t = "record" =>
            LET bad(f) ==
                    \/ f \notin DOMAIN given[g].info.props
                    \/ /\ Passed(g, f).t = "string"
                       /\ Passed(g, f).s \notin ValidDateStrings
                good(f) ==
                    /\ Passed(g, f).t = "string"
                    /\ Passed(g, f).s \in ValidDateStrings
            IN  /\ ~games[g].threw
                /\ bad("created_on") => games[g].obj.createdOn = InvalidDate
                /\ bad("last_active") => games[g].obj.lastActive = InvalidDate
                /\ good("created_on") => ~games[g].obj.createdOn.tv.nan
                /\ good("last_active") => ~games[g].obj.lastActive.tv.nan

C5_Witness ==
    \E g, h \in Made :
        /\ Passed(g, "created_on") = Str("bad-date")
        /\ games[g].obj.createdOn = InvalidDate
        /\ ~games[g].obj.lastActive.tv.nan
        /\ "last_active" \notin DOMAIN given[h].info.props
        /\ games[h].obj.lastActive = InvalidDate
        /\ ~games[h].obj.createdOn.tv.nan

\* C6: isPlayable() calls change no attribute of a Game: all eight attributes
\* keep the values the constructor gave them, and all calls on one Game
\* return the same result.
C6_ImmutableAfterConstruction ==
    \A g \in Made :
        /\ games[g] = Game(given[g].info)
        /\ Cardinality(returned[g]) <= 1

C6_Witness ==
    \E g \in Made : returned[g] # {} /\ changes > 0

C8_ConstructorNoSideEffect ==
    [][Len(games') > Len(games) =>
          /\ payloads' = payloads
          /\ heap' = heap
          /\ SubSeq(games', 1, Len(games)) = games
          /\ SubSeq(returned', 1, Len(games)) = returned]_vars

C8_Witness ==
    \E g, h \in Made :
        /\ g < h
        /\ given[h].p \in PayloadIds
        /\ payloads[given[h].p] = given[h].info.props
        /\ returned[g] # {}

\* C9: no state is shared between Games: no step changes an attribute of an
\* existing Game, an isPlayable() call on one Game leaves the results of the
\* others alone, and each result is decided by the status of the payload
\* that Game was built from.
C9_NoSharedState ==
    [][\A h \in 1..Len(games) :
          /\ games'[h] = games[h]
          /\ given'[h] = given[h]
          /\ returned'[h] # returned[h] =>
                \A k \in (1..Len(games)) \ {h} : returned'[k] = returned[k]
          /\ \A r \in returned'[h] : r = (Passed(h, "status") = Str("new"))]_vars

C9_Witness ==
    \E g, h \in Made :
        /\ given[g].p = "p1" /\ given[h].p = "p2"
        /\ returned[g] = {TRUE} /\ returned[h] = {FALSE}

\* What a reader sees through a value: the current contents of the array or
\* object it refers to, or the primitive itself.
Seen(v) == IF v.t = "object" THEN [t |-> "array", items |-> heap[v.a]] ELSE v

\* The Games built from a caller's payload, with the attribute that each of
\* the three passed-through fields is stored in.
Held == {<<"rounds", "rounds">>, <<"scoreboard", "scoreboard">>,
         <<"nPlayers", "n_players">>}

=============================================================================
